---- MODULE Spec2Model ----
(***************************************************************************)
(* Document lifecycle of the knowledge-base manager (src/app.py): the      *)
(* PostgreSQL `document` table, the files under storage/, the ChromaDB     *)
(* collection "knowledge_documents" and the per-session Streamlit state.   *)
(* Each button handler of a script run is one action; the calls that may   *)
(* raise take their outcome as an input of the action.                     *)
(***************************************************************************)
EXTENDS Integers, Sequences, FiniteSets, TLC

VARIABLES
  document,                  \* table `document`: id -> row
  next_document_id,          \* the serial behind Document.id
  storage,                   \* files on disk: path -> content
  documents_collection,      \* ChromaDB collection: id string -> entry
  upload_for_id,             \* st.session_state.upload_for_id, per session (0 is None)
  pending_vectorization_doc, \* per session: <<>> is None, <<doc_info>> is set
  last                       \* what the latest script run did and displayed

vars == <<document, next_document_id, storage, documents_collection,
          upload_for_id, pending_vectorization_doc, last>>

(* ------------------------------ bounds --------------------------------- *)

\* Number of Document ids the serial hands out.
MaxDocs == 2

\* Browser sessions that upload and index; each has its own st.session_state.
\* The removal handler reads and writes no session state, so its action
\* stands for a removal clicked in any session, these or others.
Sessions == {"s1"}

(* ------------------------------ data ----------------------------------- *)

\* Rows of table `knowledge`; names are sequences of characters.
\* Both names sanitize to the same storage directory.
knowledge ==
  1 :> [name |-> <<"A", " ", "B">>, description |-> "manuals"] @@
  2 :> [name |-> <<"a", "_", "b">>, description |-> "notes"]

PDF == "application/pdf"
DOCX == "application/vnd.openxmlformats-officedocument.wordprocessingml.document"
TXT == "text/plain"

\* Files a user may pick in st.file_uploader: name, declared type and content.
\* Content is the sequence of text units the file holds (pages of a PDF,
\* paragraphs of a DOCX, the text of a plain file); "" is a page without text.
UploadedFiles ==
  { [name |-> "guide", type |-> TXT,  content |-> <<"hello world">>],
    [name |-> "guide", type |-> "image/png", content |-> <<"px">>] }

RECURSIVE SizeOf(_)
\* uploaded_file.size
SizeOf(content) ==
  IF content = <<>> THEN 0 ELSE Len(Head(content)) + SizeOf(Tail(content))

(* --------------------------- pure helpers ------------------------------ *)

\* str.lower() on one character of the alphabet used in names.
Lower(c) ==
  CASE c = "A" -> "a"
    [] c = "B" -> "b"
    [] OTHER -> c

\* upload_for_name.replace(" ", "_").lower()
Sanitize(name) ==
  [i \in 1..Len(name) |-> Lower(IF name[i] = " " THEN "_" ELSE name[i])]

RECURSIVE Join(_)
\* The string a sequence of characters spells.
Join(chars) ==
  IF chars = <<>> THEN "" ELSE Head(chars) \o Join(Tail(chars))

\* Mutant of StoragePath: the collection name is used as it is.
StoragePath_Unsanitized(collection_name, file_name) ==
  "storage/" \o Join(collection_name) \o "/" \o file_name

\* os.path.join("storage", sanitized name, uploaded_file.name)
StoragePath(collection_name, file_name) ==
  "storage/" \o Join(Sanitize(collection_name)) \o "/" \o file_name

\* Mutant of ChromaId: the id string without its "doc_" prefix.
ChromaId_Unprefixed(document_id) ==
  ToString(document_id)

\* f"doc_{document_id}"
ChromaId(document_id) ==
  "doc_" \o ToString(document_id)

\* A mapping without key k.
Without(f, k) ==
  [x \in DOMAIN f \ {k} |-> f[x]]

\* A mapping with key k set to v.
With(f, k, v) ==
  [x \in DOMAIN f \cup {k} |-> IF x = k THEN v ELSE f[x]]

RECURSIVE ConcatPages(_)
\* text += page.extract_text() or ""
ConcatPages(pages) ==
  IF pages = <<>> THEN "" ELSE Head(pages) \o ConcatPages(Tail(pages))

RECURSIVE ConcatParagraphs(_)
\* text += para.text + "\n"
ConcatParagraphs(paras) ==
  IF paras = <<>> THEN "" ELSE Head(paras) \o "\n" \o ConcatParagraphs(Tail(paras))

\* extract_text_from_file: the text and the messages it displays. `files` is the
\* disk; `parses` tells whether the library reads the file without raising.
extract_text_from_file(file_path, filetype, files, parses) ==
  IF filetype \notin {PDF, DOCX, TXT}
  THEN [text |-> "", msgs |-> {<<"warning", "unsupported_type">>}]
  ELSE IF file_path \notin DOMAIN files \/ ~parses
  THEN [text |-> "", msgs |-> {<<"error", "extract">>}]
  ELSE IF filetype = PDF
  THEN [text |-> ConcatPages(files[file_path]), msgs |-> {}]
  ELSE IF filetype = DOCX
  THEN [text |-> ConcatParagraphs(files[file_path]), msgs |-> {}]
  ELSE [text |-> ConcatPages(files[file_path]), msgs |-> {}]

(* ------------------------------ state ---------------------------------- *)

\* st.session_state.upload_for_name and upload_for_desc: set together with
\* upload_for_id from the same row k, read only while upload_for_id is set, and
\* rows of `knowledge` are never edited or deleted.
upload_for_name(s) ==
  knowledge[upload_for_id[s]].name

upload_for_desc(s) ==
  knowledge[upload_for_id[s]].description

\* The record of a script run: the handler that ran, the session it ran in
\* ("any" for the removal handler, which uses no session state), the document
\* it was about (0 when none), the st.success/info/warning/error messages it
\* displayed and the store calls it made, in order.
Run(op, sess, doc, msgs, steps) ==
  [op |-> op, sess |-> sess, doc |-> doc, msgs |-> msgs, steps |-> steps]

Init ==
  /\ document = <<>>
  /\ next_document_id = 1
  /\ storage = <<>>
  /\ documents_collection = <<>>
  /\ upload_for_id = [s \in Sessions |-> 0]
  /\ pending_vectorization_doc = [s \in Sessions |-> <<>>]
  /\ last = Run("none", "any", 0, {}, <<>>)

(* ----------------------------- handlers -------------------------------- *)

\* The document a session's pending marker names, 0 when the marker is None.
PendingId(s) ==
  IF pending_vectorization_doc[s] = <<>>
  THEN 0 ELSE pending_vectorization_doc[s][1].document_id

\* Mutant of UploadDocumentButton: the pending marker is not cleared.
UploadDocumentButton_KeepsPending(s, k) ==
  /\ k \in DOMAIN knowledge
  /\ upload_for_id' = [upload_for_id EXCEPT ![s] = k]
  /\ last' = Run("upload_button", s, PendingId(s), {}, <<>>)
  /\ UNCHANGED <<document, next_document_id, storage, documents_collection,
                 pending_vectorization_doc>>

\* "Upload Document to <k.name>" button: sets the upload target and clears
\* any previous pending state; it displays nothing.
UploadDocumentButton(s, k) ==
  /\ k \in DOMAIN knowledge
  /\ upload_for_id' = [upload_for_id EXCEPT ![s] = k]
  /\ pending_vectorization_doc' = [pending_vectorization_doc EXCEPT ![s] = <<>>]
  /\ last' = Run("upload_button", s, PendingId(s), {}, <<>>)
  /\ UNCHANGED <<document, next_document_id, storage, documents_collection>>

\* The Document row the upload handler builds.
NewDocument(s, file, file_path) ==
  [knowledge_id |-> upload_for_id[s], name |-> file.name, filetype |-> file.type,
   size |-> SizeOf(file.content), path |-> file_path]

\* The dict stored in st.session_state.pending_vectorization_doc.
DocInfo(s, file, file_path, document_id) ==
  [document_id |-> document_id, knowledge_id |-> upload_for_id[s],
   knowledge_name |-> upload_for_name(s),
   knowledge_description |-> upload_for_desc(s),
   file_name |-> file.name, file_type |-> file.type,
   size |-> SizeOf(file.content), path |-> file_path]

\* Mutant of WriteFile: nothing reaches the disk.
WriteFile_NotWritten(files, file_path, content, saved) ==
  files

\* with open(file_path, "wb") as f: f.write(...).  `saved` is "ok",
\* "open_error" (open raised, the disk is as before) or "write_error" (write
\* raised after open had created or truncated the file).
WriteFile(files, file_path, content, saved) ==
  CASE saved = "ok" -> With(files, file_path, content)
    [] saved = "write_error" -> With(files, file_path, <<>>)
    [] OTHER -> files

\* Mutant of FileUploaded: a failed file write displays its error but the
\* handler goes on to insert the row and set the marker.
FileUploaded_InsertsAfterSaveFailure(s, file, saved, inserted) ==
  /\ upload_for_id[s] # 0
  /\ next_document_id <= MaxDocs
  /\ LET file_path == StoragePath(upload_for_name(s), file.name)
         new_id == next_document_id
     IN  /\ storage' = WriteFile(storage, file_path, file.content, saved)
         /\ saved # "ok" => inserted
         /\ IF inserted
            THEN /\ document' = With(document, new_id, NewDocument(s, file, file_path))
                 /\ next_document_id' = new_id + 1
                 /\ pending_vectorization_doc' =
                      [pending_vectorization_doc EXCEPT
                         ![s] = <<DocInfo(s, file, file_path, new_id)>>]
                 /\ last' = Run("upload", s, new_id,
                                IF saved # "ok"
                                THEN {<<"error", "save_file">>}
                                ELSE {<<"success", "file_saved">>,
                                      <<"success", "metadata_saved">>}, <<>>)
            ELSE /\ last' = Run("upload", s, 0,
                                {<<"success", "file_saved">>,
                                 <<"error", "save_metadata">>}, <<>>)
                 /\ UNCHANGED <<document, next_document_id, pending_vectorization_doc>>
  /\ upload_for_id' = [upload_for_id EXCEPT ![s] = 0]
  /\ UNCHANGED documents_collection

\* Mutant of FileUploaded: the upload target is not reset after the file was
\* processed.
FileUploaded_KeepsTarget(s, file, saved, inserted) ==
  /\ upload_for_id[s] # 0
  /\ next_document_id <= MaxDocs
  /\ LET file_path == StoragePath(upload_for_name(s), file.name)
         new_id == next_document_id
     IN  /\ storage' = WriteFile(storage, file_path, file.content, saved)
         /\ IF saved # "ok"
            THEN /\ inserted
                 /\ last' = Run("upload", s, 0, {<<"error", "save_file">>}, <<>>)
                 /\ UNCHANGED <<document, next_document_id, pending_vectorization_doc>>
            ELSE IF inserted
            THEN /\ document' = With(document, new_id, NewDocument(s, file, file_path))
                 /\ next_document_id' = new_id + 1
                 /\ pending_vectorization_doc' =
                      [pending_vectorization_doc EXCEPT
                         ![s] = <<DocInfo(s, file, file_path, new_id)>>]
                 /\ last' = Run("upload", s, new_id,
                                {<<"success", "file_saved">>,
                                 <<"success", "metadata_saved">>}, <<>>)
            ELSE /\ last' = Run("upload", s, 0,
                                {<<"success", "file_saved">>,
                                 <<"error", "save_metadata">>}, <<>>)
                 /\ UNCHANGED <<document, next_document_id, pending_vectorization_doc>>
  /\ UNCHANGED <<upload_for_id, documents_collection>>

\* The sidebar upload block once a file is chosen. `saved` is the outcome of
\* writing the file, `inserted` tells whether db.add/db.commit went through.
FileUploaded(s, file, saved, inserted) ==
  /\ upload_for_id[s] # 0
  /\ next_document_id <= MaxDocs
  /\ LET file_path == StoragePath(upload_for_name(s), file.name)
         new_id == next_document_id
     IN  /\ storage' = WriteFile(storage, file_path, file.content, saved)
         /\ IF saved # "ok"
            THEN \* except: st.error, reset upload_for_id, st.stop()
                 /\ inserted
                 /\ last' = Run("upload", s, 0, {<<"error", "save_file">>}, <<>>)
                 /\ UNCHANGED <<document, next_document_id, pending_vectorization_doc>>
            ELSE IF inserted
            THEN /\ document' = With(document, new_id, NewDocument(s, file, file_path))
                 /\ next_document_id' = new_id + 1
                 /\ pending_vectorization_doc' =
                      [pending_vectorization_doc EXCEPT
                         ![s] = <<DocInfo(s, file, file_path, new_id)>>]
                 /\ last' = Run("upload", s, new_id,
                                {<<"success", "file_saved">>,
                                 <<"success", "metadata_saved">>}, <<>>)
            ELSE \* except: db.rollback(), st.error
                 /\ last' = Run("upload", s, 0,
                                {<<"success", "file_saved">>,
                                 <<"error", "save_metadata">>}, <<>>)
                 /\ UNCHANGED <<document, next_document_id, pending_vectorization_doc>>
  /\ upload_for_id' = [upload_for_id EXCEPT ![s] = 0]
  /\ UNCHANGED documents_collection

\* documents_collection.add(documents=[text], metadatas=[doc_info], ids=[id]);
\* an id the collection already holds is left as it is.
ChromaAdd(collection, id, text, doc_info) ==
  IF id \in DOMAIN collection
  THEN collection
  ELSE With(collection, id, [document |-> text, metadata |-> doc_info])

\* Mutant of IndexExtracted: the marker is cleared although add raised.
IndexExtracted_ClearsOnAddError(doc_info, extracted, added) ==
  IF extracted.text # ""
  THEN IF added
       THEN [collection |-> ChromaAdd(documents_collection,
                                      ChromaId(doc_info.document_id),
                                      extracted.text, doc_info),
             pending |-> <<>>,
             msgs |-> extracted.msgs \cup {<<"success", "added_vectordb">>}]
       ELSE [collection |-> documents_collection,
             pending |-> <<>>,
             msgs |-> extracted.msgs \cup {<<"error", "add_vectordb">>}]
  ELSE [collection |-> documents_collection,
        pending |-> <<doc_info>>,
        msgs |-> extracted.msgs \cup {<<"warning", "no_text">>}]

\* Mutant of IndexExtracted: the marker is cleared whatever the text is.
IndexExtracted_ClearsOnEmpty(doc_info, extracted, added) ==
  IF extracted.text # "" /\ added
  THEN [collection |-> ChromaAdd(documents_collection,
                                 ChromaId(doc_info.document_id),
                                 extracted.text, doc_info),
        pending |-> <<>>,
        msgs |-> extracted.msgs \cup {<<"success", "added_vectordb">>}]
  ELSE [collection |-> documents_collection,
        pending |-> <<>>,
        msgs |-> extracted.msgs \cup
                   {IF extracted.text # "" THEN <<"error", "add_vectordb">>
                                           ELSE <<"warning", "no_text">>}]

\* What the "Add to VectorDB" handler does with the extracted text: the new
\* collection, the new marker of the session and the messages. `added` tells
\* whether documents_collection.add returned without raising.
IndexExtracted(doc_info, extracted, added) ==
  IF extracted.text # ""
  THEN IF added
       THEN [collection |-> ChromaAdd(documents_collection,
                                      ChromaId(doc_info.document_id),
                                      extracted.text, doc_info),
             pending |-> <<>>,
             msgs |-> extracted.msgs \cup {<<"success", "added_vectordb">>}]
       ELSE [collection |-> documents_collection,
             pending |-> <<doc_info>>,
             msgs |-> extracted.msgs \cup {<<"error", "add_vectordb">>}]
  ELSE [collection |-> documents_collection,
        pending |-> <<doc_info>>,
        msgs |-> extracted.msgs \cup {<<"warning", "no_text">>}]

\* "Add to VectorDB" button. `parses` is the outcome of the extraction library.
AddToVectorDB(s, parses, added) ==
  /\ pending_vectorization_doc[s] # <<>>
  /\ LET doc_info == pending_vectorization_doc[s][1]
         extracted == extract_text_from_file(doc_info.path, doc_info.file_type,
                                             storage, parses)
         r == IndexExtracted(doc_info, extracted, added)
     IN  \* inputs that are not consulted take one value
         /\ parses \/ (doc_info.file_type \in {PDF, DOCX, TXT}
                       /\ doc_info.path \in DOMAIN storage)
         /\ added \/ extracted.text # ""
         /\ documents_collection' = r.collection
         /\ pending_vectorization_doc' = [pending_vectorization_doc EXCEPT ![s] = r.pending]
         /\ last' = Run("add_to_vectordb", s, doc_info.document_id, r.msgs, <<>>)
  /\ UNCHANGED <<document, next_document_id, storage, upload_for_id>>

\* The stores as one removal run sees them, with what it displayed and did.
RemovalRun ==
  [document |-> document, storage |-> storage,
   documents_collection |-> documents_collection, msgs |-> {}, steps |-> <<>>]

\* A store call of a removal run: what it was, its target, whether the target
\* existed before the call and whether the call returned without raising.
Step(step, target, existed, ok) ==
  [step |-> step, target |-> target, existed |-> existed, ok |-> ok]

\* 1. Delete from ChromaDB; `ok` tells whether delete returned without raising.
DeleteFromChroma(r, doc_to_remove_id, ok) ==
  LET id == ChromaId(doc_to_remove_id)
      step == Step("chroma_delete", id, id \in DOMAIN r.documents_collection, ok)
  IN  IF ok
      THEN [r EXCEPT !.documents_collection = Without(@, id),
                     !.msgs = @ \cup {<<"success", "chroma_removed">>},
                     !.steps = Append(@, step)]
      ELSE [r EXCEPT !.msgs = @ \cup {<<"warning", "chroma_remove">>},
                     !.steps = Append(@, step)]

\* Mutant of DeleteFromStorage: success is displayed but the file is kept.
DeleteFromStorage_KeepsFile(r, path, ok) ==
  LET step == Step("file_delete", path, path \in DOMAIN r.storage, ok)
  IN  IF path \in DOMAIN r.storage
      THEN IF ok
           THEN [r EXCEPT !.msgs = @ \cup {<<"success", "file_deleted">>},
                          !.steps = Append(@, step)]
           ELSE [r EXCEPT !.msgs = @ \cup {<<"error", "file_delete">>},
                          !.steps = Append(@, step)]
      ELSE [r EXCEPT !.msgs = @ \cup {<<"info", "file_not_found">>},
                     !.steps = Append(@, step)]

\* Mutant of DeleteFromStorage: a missing file is displayed as an error.
DeleteFromStorage_MissingIsError(r, path, ok) ==
  LET step == Step("file_delete", path, path \in DOMAIN r.storage, ok)
  IN  IF path \in DOMAIN r.storage /\ ok
      THEN [r EXCEPT !.storage = Without(@, path),
                     !.msgs = @ \cup {<<"success", "file_deleted">>},
                     !.steps = Append(@, step)]
      ELSE [r EXCEPT !.msgs = @ \cup {<<"error", "file_delete">>},
                     !.steps = Append(@, step)]

\* 2. Delete file from local storage; `ok` tells whether os.remove succeeded.
DeleteFromStorage(r, path, ok) ==
  LET step == Step("file_delete", path, path \in DOMAIN r.storage, ok)
  IN  IF path \in DOMAIN r.storage
      THEN IF ok
           THEN [r EXCEPT !.storage = Without(@, path),
                          !.msgs = @ \cup {<<"success", "file_deleted">>},
                          !.steps = Append(@, step)]
           ELSE [r EXCEPT !.msgs = @ \cup {<<"error", "file_delete">>},
                          !.steps = Append(@, step)]
      ELSE [r EXCEPT !.msgs = @ \cup {<<"info", "file_not_found">>},
                     !.steps = Append(@, step)]

\* Mutant of DeleteFromPostgres: a failed delete is not rolled back.
DeleteFromPostgres_NoRollback(r, doc_to_remove_id, pg) ==
  LET step == Step("pg_delete", doc_to_remove_id,
                   doc_to_remove_id \in DOMAIN r.document, pg = "ok")
  IN  IF pg = "ok"
      THEN [r EXCEPT !.document = Without(@, doc_to_remove_id),
                     !.msgs = @ \cup {<<"success", "pg_removed">>},
                     !.steps = Append(@, step)]
      ELSE [r EXCEPT !.document = Without(@, doc_to_remove_id),
                     !.msgs = @ \cup {<<"error", pg>>},
                     !.steps = Append(@, step)]

\* 3. Delete from PostgreSQL; `pg` is "ok", "integrity_error" (IntegrityError)
\* or "error" (any other exception); both are rolled back.
DeleteFromPostgres(r, doc_to_remove_id, pg) ==
  LET step == Step("pg_delete", doc_to_remove_id,
                   doc_to_remove_id \in DOMAIN r.document, pg = "ok")
  IN  IF pg = "ok"
      THEN [r EXCEPT !.document = Without(@, doc_to_remove_id),
                     !.msgs = @ \cup {<<"success", "pg_removed">>},
                     !.steps = Append(@, step)]
      ELSE [r EXCEPT !.msgs = @ \cup {<<"error", pg>>},
                     !.steps = Append(@, step)]

\* Mutant of RemovalSteps: the PostgreSQL row is deleted first.
RemovalSteps_CatalogFirst(r, doc_to_remove_id, path, chroma_ok, file_ok, pg) ==
  DeleteFromStorage(
    DeleteFromChroma(
      DeleteFromPostgres(r, doc_to_remove_id, pg), doc_to_remove_id, chroma_ok),
    path, file_ok)

\* The three steps of the removal handler, in the order the code runs them.
RemovalSteps(r, doc_to_remove_id, path, chroma_ok, file_ok, pg) ==
  DeleteFromPostgres(
    DeleteFromStorage(
      DeleteFromChroma(r, doc_to_remove_id, chroma_ok), path, file_ok),
    doc_to_remove_id, pg)

\* Mutant of RemoveSelectedDocument: when the row is not found the ChromaDB
\* entry of the id is deleted all the same.
RemoveSelectedDocument_CleansWhenNotFound(d, chroma_ok, file_ok, pg) ==
  /\ d \in 1..(next_document_id - 1)
  /\ IF d \in DOMAIN document
     THEN LET r == RemovalSteps(RemovalRun, d, document[d].path,
                                chroma_ok, file_ok, pg)
          IN  /\ file_ok \/ document[d].path \in DOMAIN storage
              /\ document' = r.document
              /\ storage' = r.storage
              /\ documents_collection' = r.documents_collection
              /\ last' = Run("remove", "any", d, r.msgs, r.steps)
     ELSE /\ chroma_ok /\ file_ok /\ pg = "ok"
          /\ documents_collection' = Without(documents_collection, ChromaId(d))
          /\ last' = Run("remove", "any", d, {<<"error", "doc_not_found">>}, <<>>)
          /\ UNCHANGED <<document, storage>>
  /\ UNCHANGED <<next_document_id, upload_for_id, pending_vectorization_doc>>

\* "Remove Selected Document" button for document id d.  The id comes from the
\* list the page showed; the row is looked up again and may be gone by then.
RemoveSelectedDocument(d, chroma_ok, file_ok, pg) ==
  /\ d \in 1..(next_document_id - 1)
  /\ IF d \in DOMAIN document
     THEN LET r == RemovalSteps(RemovalRun, d, document[d].path,
                                chroma_ok, file_ok, pg)
          IN  \* os.remove is called only when the file exists
              /\ file_ok \/ document[d].path \in DOMAIN storage
              /\ document' = r.document
              /\ storage' = r.storage
              /\ documents_collection' = r.documents_collection
              /\ last' = Run("remove", "any", d, r.msgs, r.steps)
     ELSE /\ chroma_ok /\ file_ok /\ pg = "ok"
          /\ last' = Run("remove", "any", d, {<<"error", "doc_not_found">>}, <<>>)
          /\ UNCHANGED <<document, storage, documents_collection>>
  /\ UNCHANGED <<next_document_id, upload_for_id, pending_vectorization_doc>>

SaveOutcomes == {"ok", "open_error", "write_error"}

PgOutcomes == {"ok", "integrity_error", "error"}

Next ==
  \/ \E s \in Sessions, k \in DOMAIN knowledge : UploadDocumentButton(s, k)
  \/ \E s \in Sessions, file \in UploadedFiles, saved \in SaveOutcomes,
        inserted \in BOOLEAN :
       FileUploaded(s, file, saved, inserted)
  \/ \E s \in Sessions, parses \in BOOLEAN, added \in BOOLEAN :
       AddToVectorDB(s, parses, added)
  \/ \E d \in 1..MaxDocs, chroma_ok \in BOOLEAN, file_ok \in BOOLEAN,
        pg \in PgOutcomes :
       RemoveSelectedDocument(d, chroma_ok, file_ok, pg)

Spec == Init /\ [][Next]_vars

(* ------------------------------ claims --------------------------------- *)

\* The Vector Entry key the specification gives a document id.
VectorKey(id) ==
  "doc_" \o ToString(id)

\* The upload handler just ran to completion: file written, row committed.
UploadCompleted ==
  /\ last'.op = "upload"
  /\ <<"success", "metadata_saved">> \in last'.msgs

\* What a completed upload changed: one new row with a fresh id in an existing
\* collection, one file written at the row's path, every other row and file
\* as before, the collection untouched.
UploadAddedOneRowOneBlob ==
  LET id == last'.doc
  IN  /\ id \notin DOMAIN document
      /\ DOMAIN document' = DOMAIN document \cup {id}
      /\ \A d \in DOMAIN document : document'[d] = document[d]
      /\ document'[id].knowledge_id \in DOMAIN knowledge
      /\ document'[id].path \in DOMAIN storage'
      /\ DOMAIN storage' = DOMAIN storage \cup {document'[id].path}
      /\ \A p \in DOMAIN storage \ {document'[id].path} : storage'[p] = storage[p]
      /\ documents_collection' = documents_collection

\* After the step, exactly one Vector Entry is about document last'.doc, the
\* one keyed "doc_" + id, and every entry held before is as before.
OneEntryForDocument ==
  LET key == VectorKey(last'.doc)
  IN  /\ key \in DOMAIN documents_collection'
      /\ {k \in DOMAIN documents_collection' :
            documents_collection'[k].metadata.document_id = last'.doc} = {key}
      /\ \A k \in DOMAIN documents_collection :
            /\ k \in DOMAIN documents_collection'
            /\ documents_collection'[k] = documents_collection[k]
      /\ DOMAIN documents_collection' \subseteq DOMAIN documents_collection \cup {key}

RemovalAllSucceeded ==
  /\ last.op = "remove"
  /\ Len(last.steps) = 3
  /\ \A i \in 1..3 : last.steps[i].existed /\ last.steps[i].ok

\* C2: after an uploaded and indexed document is removed with every step
\* succeeding, it has no Catalog row, the Vector Index has no entry
\* "doc_" + id and the file at its storage path is no longer on disk.
C2_RemovedFromAllStores ==
  RemovalAllSucceeded =>
    /\ last.doc \notin DOMAIN document
    /\ VectorKey(last.doc) \notin DOMAIN documents_collection
    /\ \E i \in 1..3 : /\ last.steps[i].step = "file_delete"
                       /\ last.steps[i].target \notin DOMAIN storage

\* C2 witness: a removal of an indexed document whose file was on disk went
\* through all three steps without a failure.
C2_Witness ==
  /\ RemovalAllSucceeded
  /\ last.steps[1].target = VectorKey(last.doc)

\* A removal run found the row of the document it was started for.
RemovalFoundRow ==
  last.op = "remove" /\ <<"error", "doc_not_found">> \notin last.msgs

\* C3: a removal that ends in success leaves no Catalog row; a missing Blob, a
\* failed Vector Index delete or a failed Blob delete do not stop the flow,
\* which still reaches the Catalog delete and ends in success when that delete
\* commits; a missing Blob is displayed as information, not as an error.
C3_RemovalBestEffort ==
  RemovalFoundRow =>
    /\ Len(last.steps) = 3
    /\ last.steps[3].step = "pg_delete"
    /\ last.steps[3].ok <=> <<"success", "pg_removed">> \in last.msgs
    /\ <<"success", "pg_removed">> \in last.msgs => last.doc \notin DOMAIN document
    /\ \A i \in 1..3 :
         (last.steps[i].step = "file_delete" /\ ~last.steps[i].existed) =>
            /\ <<"info", "file_not_found">> \in last.msgs
            /\ <<"error", "file_delete">> \notin last.msgs

\* C3 witness: a removal ended in success although the Blob was already
\* missing and the Vector Index delete raised.
C3_Witness ==
  /\ RemovalFoundRow
  /\ <<"success", "pg_removed">> \in last.msgs
  /\ <<"info", "file_not_found">> \in last.msgs
  /\ <<"warning", "chroma_remove">> \in last.msgs
  /\ last.doc \notin DOMAIN document

\* C4 as stated: in every reachable state every Vector Entry's key is
\* "doc_" + id of a Document row that is live in the Catalog.
C4_Original ==
  \A key \in DOMAIN documents_collection :
    \E d \in DOMAIN document : key = VectorKey(d)

\* C5 as stated: whenever a session's pending marker is set, the document it
\* names has a live Catalog row, a Blob at the marker's path and no Vector
\* Entry.
C5_Original ==
  \A s \in Sessions :
    pending_vectorization_doc[s] # <<>> =>
      LET doc_info == pending_vectorization_doc[s][1]
      IN  /\ doc_info.document_id \in DOMAIN document
          /\ doc_info.path \in DOMAIN storage
          /\ VectorKey(doc_info.document_id) \notin DOMAIN documents_collection

\* C6 as stated: row, Blob and Vector Entry go as a unit: every live row has
\* its Blob on disk, no Vector Entry is about a document without a row, and a
\* removal that deleted the row left neither the Blob nor the entry behind.
C6_Original ==
  /\ \A d \in DOMAIN document : document[d].path \in DOMAIN storage
  /\ \A key \in DOMAIN documents_collection :
       documents_collection[key].metadata.document_id \in DOMAIN document
  /\ (RemovalFoundRow /\ last.steps[3].ok) =>
       /\ last.steps[1].target \notin DOMAIN documents_collection
       /\ last.steps[2].target \notin DOMAIN storage

\* C7: when indexing is triggered and the declared type is unsupported or the
\* extractor caught an error, the text is empty; and whenever the text is
\* empty the session's marker stays set to the same document and the Vector
\* Index is unchanged.
C7_EmptyTextKeepsMarker ==
  [][last'.op = "add_to_vectordb" =>
       LET s == last'.sess
           doc_info == pending_vectorization_doc[s][1]
       IN  /\ (\/ doc_info.file_type \notin {PDF, DOCX, TXT}
               \/ <<"error", "extract">> \in last'.msgs)
                => <<"warning", "no_text">> \in last'.msgs
           /\ <<"warning", "no_text">> \in last'.msgs =>
                /\ pending_vectorization_doc'[s] = <<doc_info>>
                /\ documents_collection' = documents_collection]_vars

\* C7 witness: indexing of a file of unsupported type was triggered; the
\* marker still names the document and no entry exists for it.
C7_Witness ==
  /\ last.op = "add_to_vectordb"
  /\ <<"warning", "unsupported_type">> \in last.msgs
  /\ <<"warning", "no_text">> \in last.msgs
  /\ PendingId(last.sess) = last.doc
  /\ VectorKey(last.doc) \notin DOMAIN documents_collection

\* C8: starting an upload clears the session's marker and leaves Catalog,
\* Blob Store and Vector Index as they are; a session's marker never comes to
\* name a document id that was issued before, and an entry "doc_" + d is
\* created only by the session whose marker names d; so a document whose
\* marker was discarded is never indexed by that session.
C8_DiscardedNeverIndexed ==
  [][/\ last'.op = "upload_button" =>
          /\ pending_vectorization_doc'[last'.sess] = <<>>
          /\ UNCHANGED <<document, storage, documents_collection>>
     /\ \A s \in Sessions : \A d \in 1..(next_document_id - 1) :
          PendingId(s) # d =>
            \/ pending_vectorization_doc'[s] = <<>>
            \/ pending_vectorization_doc'[s][1].document_id # d
     /\ \A d \in 1..(next_document_id - 1) :
          (/\ VectorKey(d) \notin DOMAIN documents_collection
           /\ VectorKey(d) \in DOMAIN documents_collection')
            => /\ last'.op = "add_to_vectordb"
               /\ PendingId(last'.sess) = d]_vars

\* C8 witness: an upload was started while the marker named a document; the
\* marker is gone, the document's row and file remain, and it has no entry.
C8_Witness ==
  /\ last.op = "upload_button"
  /\ last.doc # 0
  /\ pending_vectorization_doc[last.sess] = <<>>
  /\ last.doc \in DOMAIN document
  /\ document[last.doc].path \in DOMAIN storage
  /\ VectorKey(last.doc) \notin DOMAIN documents_collection

\* C9 as stated: whenever starting an upload discards a set marker, the run
\* displays a notice about the discarded pending index.
C9_Original ==
  (last.op = "upload_button" /\ last.doc # 0) => last.msgs # {}

\* C10: a removal run that found its row calls the Vector Index delete, then
\* the Blob delete, then the Catalog delete, each after the previous one
\* returned or raised; the Catalog delete is never reached before the other
\* two were attempted.
C10_RemovalOrder ==
  RemovalFoundRow =>
    [i \in 1..Len(last.steps) |-> last.steps[i].step]
      = <<"chroma_delete", "file_delete", "pg_delete">>

\* C10 witness: a removal whose Vector Index delete and Blob delete both
\* raised before its Catalog delete committed.
C10_Witness ==
  /\ RemovalFoundRow
  /\ ~last.steps[1].ok
  /\ last.steps[2].existed /\ ~last.steps[2].ok
  /\ last.steps[3].step = "pg_delete" /\ last.steps[3].ok

\* C11: when the Catalog delete of a removal fails, the row is still present,
\* the run ends with the error and without the success of that step, and what
\* the Vector Index delete and the Blob delete of the same run removed stays
\* removed.
C11_FailedCatalogDeleteKeepsRow ==
  (RemovalFoundRow /\ ~last.steps[3].ok) =>
    /\ last.doc \in DOMAIN document
    /\ \/ <<"error", "integrity_error">> \in last.msgs
       \/ <<"error", "error">> \in last.msgs
    /\ <<"success", "pg_removed">> \notin last.msgs
    /\ last.steps[1].ok => last.steps[1].target \notin DOMAIN documents_collection
    /\ (last.steps[2].existed /\ last.steps[2].ok) =>
         last.steps[2].target \notin DOMAIN storage

\* C11 witness: the Catalog delete failed after the entry and the file of an
\* indexed document were deleted; the row remains and its path has no file.
C11_Witness ==
  /\ RemovalFoundRow
  /\ ~last.steps[3].ok
  /\ last.steps[1].existed /\ last.steps[1].ok
  /\ last.steps[2].existed /\ last.steps[2].ok
  /\ last.doc \in DOMAIN document
  /\ document[last.doc].path \notin DOMAIN storage
  /\ VectorKey(last.doc) \notin DOMAIN documents_collection

\* C12: when writing the uploaded bytes fails, the upload run inserts no
\* Document row, leaves the session's marker unset and leaves the Vector Index
\* unchanged; it displays the error and nothing else.
C12_SaveFailureAborts ==
  [][(last'.op = "upload" /\ <<"error", "save_file">> \in last'.msgs) =>
       /\ document' = document
       /\ next_document_id' = next_document_id
       /\ pending_vectorization_doc'[last'.sess] = <<>>
       /\ documents_collection' = documents_collection
       /\ last'.msgs = {<<"error", "save_file">>}]_vars

\* C12 witness: an upload whose file write failed, started while the Catalog
\* already held a row; no row was added and the session has no marker.
C12_Witness ==
  /\ last.op = "upload"
  /\ <<"error", "save_file">> \in last.msgs
  /\ DOMAIN document = 1..(next_document_id - 1)
  /\ next_document_id = 2
  /\ pending_vectorization_doc[last.sess] = <<>>

\* C13: when the insert of the Document row fails after the file was written,
\* no row is added, the written file is on disk at the storage path of the
\* upload with the uploaded content, and the session's marker is not set, so
\* the session has nothing to index.
C13_InsertFailureKeepsBlob ==
  [][(last'.op = "upload" /\ <<"error", "save_metadata">> \in last'.msgs) =>
       /\ document' = document
       /\ <<"success", "file_saved">> \in last'.msgs
       /\ \E file \in UploadedFiles :
            LET file_path == "storage/a_b/" \o file.name
            IN  /\ file_path \in DOMAIN storage'
                /\ storage'[file_path] = file.content
                /\ \A p \in DOMAIN storage \ {file_path} :
                     p \in DOMAIN storage' /\ storage'[p] = storage[p]
       /\ pending_vectorization_doc'[last'.sess] = <<>>
       /\ documents_collection' = documents_collection]_vars

\* C13 witness: an upload whose insert failed left its file on disk with no
\* row pointing at it and no marker in the session.
C13_Witness ==
  /\ last.op = "upload"
  /\ <<"error", "save_metadata">> \in last.msgs
  /\ "storage/a_b/guide" \in DOMAIN storage
  /\ \A d \in DOMAIN document : document[d].path # "storage/a_b/guide"
  /\ pending_vectorization_doc[last.sess] = <<>>

\* C14: a run of the indexing handler clears the session's marker if and only
\* if the add succeeded: it displays exactly one of success, add error and
\* no-text warning; on success the entry "doc_" + id exists and the marker is
\* cleared; otherwise the marker still names the same document and the
\* Vector Index is as before.
C14_MarkerClearedIffAdded ==
  [][last'.op = "add_to_vectordb" =>
       LET s == last'.sess
           doc_info == pending_vectorization_doc[s][1]
           success == <<"success", "added_vectordb">> \in last'.msgs
           failure == <<"error", "add_vectordb">> \in last'.msgs
           empty == <<"warning", "no_text">> \in last'.msgs
       IN  /\ last'.doc = doc_info.document_id
           /\ (success /\ ~failure /\ ~empty) \/ (~success /\ (failure # empty))
           /\ pending_vectorization_doc'[s] = <<>> <=> success
           /\ success => VectorKey(doc_info.document_id) \in DOMAIN documents_collection'
           /\ ~success =>
                /\ pending_vectorization_doc'[s] = <<doc_info>>
                /\ documents_collection' = documents_collection]_vars

\* C14 witness: the add raised on non-empty text; the marker still names the
\* document and the Vector Index has no entry for it.
C14_Witness ==
  /\ last.op = "add_to_vectordb"
  /\ <<"error", "add_vectordb">> \in last.msgs
  /\ PendingId(last.sess) = last.doc
  /\ VectorKey(last.doc) \notin DOMAIN documents_collection

\* Row d is an earlier upload with the same file name as the row just added,
\* in the same collection or in one whose sanitized name is the same.
SameNameEarlierUpload(d) ==
  /\ d \in DOMAIN document
  /\ document[d].name = document'[last'.doc].name
  /\ Sanitize(knowledge[document[d].knowledge_id].name)
       = Sanitize(knowledge[document'[last'.doc].knowledge_id].name)

\* C15: a completed upload whose file name equals that of an earlier upload
\* in the same collection, or in a collection with the same sanitized name,
\* adds a row with a new id whose path is the earlier row's path, replaces
\* the bytes at that path by the uploaded ones and leaves the earlier row as
\* it was, so both live rows share one file.
C15_SameNameOverwrites ==
  [][UploadCompleted =>
       \A d \in 1..(next_document_id - 1) :
         SameNameEarlierUpload(d) =>
           LET new == document'[last'.doc]
           IN  /\ last'.doc \notin 1..(next_document_id - 1)
               /\ new.path = document[d].path
               /\ d \in DOMAIN document' /\ document'[d] = document[d]
               /\ DOMAIN storage' = DOMAIN storage \cup {new.path}
               /\ \E file \in UploadedFiles :
                    /\ file.name = new.name /\ file.type = new.filetype
                    /\ storage'[new.path] = file.content]_vars

\* C15 witness: two live rows of different collections and different file
\* types share one path, and the file there holds the bytes of the later one.
C15_Witness ==
  /\ last.op = "upload"
  /\ <<"success", "metadata_saved">> \in last.msgs
  /\ \E d \in DOMAIN document :
       /\ d < last.doc
       /\ document[d].path = document[last.doc].path
       /\ document[d].knowledge_id # document[last.doc].knowledge_id
       /\ document[d].filetype = TXT
       /\ document[last.doc].filetype # TXT
       /\ storage[document[d].path] = <<"px">>

\* C16: a removal run started for an id whose row is gone when it is looked
\* up makes no store call, leaves Catalog, files, Vector Index and every
\* session's marker and upload target as they are, and displays the
\* not-found error and nothing else.
C16_NotFoundChangesNothing ==
  [][(last'.op = "remove" /\ last'.doc \notin DOMAIN document) =>
       /\ last'.steps = <<>>
       /\ last'.msgs = {<<"error", "doc_not_found">>}
       /\ UNCHANGED <<document, next_document_id, storage, documents_collection,
                      upload_for_id, pending_vectorization_doc>>]_vars

\* C16 witness: a removal of a document that an earlier removal had deleted
\* from the Catalog while its entry and its file stayed behind: not found,
\* no store call, entry and file still there.
C16_Witness ==
  /\ last.op = "remove"
  /\ <<"error", "doc_not_found">> \in last.msgs
  /\ last.steps = <<>>
  /\ last.doc \notin DOMAIN document
  /\ VectorKey(last.doc) \in DOMAIN documents_collection
  /\ documents_collection[VectorKey(last.doc)].metadata.path \in DOMAIN storage

\* C17: a run that processed an uploaded file, whatever its outcome, leaves
\* the session's upload target cleared; a row is inserted only by such a run,
\* one row per run, in a session whose target was set; and a cleared target
\* is set again only by the Upload Document button of that session.  So each
\* start of an upload leads to at most one inserted row.
C17_OneRowPerUploadStart ==
  [][/\ last'.op = "upload" =>
          /\ upload_for_id[last'.sess] # 0
          /\ upload_for_id'[last'.sess] = 0
     /\ DOMAIN document' \ DOMAIN document # {} =>
          /\ last'.op = "upload"
          /\ DOMAIN document' \ DOMAIN document = {last'.doc}
          /\ DOMAIN document \subseteq DOMAIN document'
     /\ \A s \in Sessions :
          (upload_for_id[s] = 0 /\ upload_for_id'[s] # 0) =>
             last'.op = "upload_button" /\ last'.sess = s]_vars

\* C17 witness: a second upload of a session, started anew after the first,
\* inserted the second row and left the upload target cleared.
C17_Witness ==
  /\ last.op = "upload"
  /\ <<"success", "metadata_saved">> \in last.msgs
  /\ last.doc = 2
  /\ upload_for_id[last.sess] = 0

====
